---- MODULE Spec2Model ----
(***************************************************************************)
(* Inbound activity gatekeeping of lemmy_apub::activities::receive:        *)
(* receive_unhandled_activity, get_actor_as_user,                          *)
(* verify_activity_domains_valid and get_like_object_id.                   *)
(*                                                                         *)
(* The functions are generic over activitystreams activities.  An activity *)
(* is modelled by the three fields they read: id (Option<Url>), actor and  *)
(* object (both OneOrMany<AnyBase>).  The activitystreams and url          *)
(* accessors the functions call are modelled by what they compute.         *)
(***************************************************************************)
EXTENDS Integers, Sequences, FiniteSets, TLC

VARIABLES
  pc,                        \* "serving" | "call" | "done"
  op,                        \* the function called last ("none" before any call)
  activity,                  \* the activity passed to it
  actor_id,                  \* verify_activity_domains_valid: actor_id
  object_domain_must_match,  \* verify_activity_domains_valid: the flag
  result,                    \* the Result it returned
  object_id,                 \* verify_activity_domains_valid: its local object_id
  request_counter,           \* the shared request counter (fetch budget left)
  known,                     \* actor URIs with a local user record
  fetches,                   \* network fetches performed so far
  delegated,                 \* the last call invoked get_or_fetch_and_upsert_user
  before,                    \* request_counter, known, fetches at entry of the last call
  initial_budget             \* the value the request's counter was created with

vars == <<pc, op, activity, actor_id, object_domain_must_match, result,
          object_id, request_counter, known, fetches, delegated, before,
          initial_budget>>

-----------------------------------------------------------------------------
(* Bounds *)

\* longest list in an actor or object field
MaxMany == 2

\* largest fetch budget a request starts with
MaxBudget == 2

-----------------------------------------------------------------------------
(* Option and Result *)

None == [some |-> FALSE]
Some(x) == [some |-> TRUE, val |-> x]

Ok(v) == [ok |-> TRUE, val |-> v]
Err(e) == [ok |-> FALSE, err |-> e]

\* Ok(()) of a function returning Result<(), LemmyError>
Unit == "()"

-----------------------------------------------------------------------------
(* url::Url.  A host is a domain name, an IP address literal, or absent    *)
(* (a URL without authority, such as mailto:alice@a.example).              *)

NoHost == [kind |-> "None", name |-> ""]
DomainHost(n) == [kind |-> "Domain", name |-> n]
Ipv4Host(n) == [kind |-> "Ipv4", name |-> n]

Url(h, p) == [host |-> h, path |-> p]

UrlA1 == Url(DomainHost("a.example"), "/1")
UrlA2 == Url(DomainHost("a.example"), "/2")
UrlB1 == Url(DomainHost("b.example"), "/1")
UrlIp == Url(Ipv4Host("192.0.2.1"), "/1")
UrlNoHost == Url(NoHost, "alice@a.example")

Urls == {UrlA1, UrlA2, UrlB1, UrlIp, UrlNoHost}
OptUrls == {None} \cup {Some(u) : u \in Urls}

\* mutant: Url::host_str() in place of Url::domain(), which also answers for an
\* IP address host
host_str(url) ==
  IF url.host.kind = "None" THEN None ELSE Some(url.host.name)

\* Url::domain(): the host when it is a domain name, None for an IP address
\* and for a URL without host
domain(url) ==
  IF url.host.kind = "Domain" THEN Some(url.host.name) ELSE None

-----------------------------------------------------------------------------
(* activitystreams: AnyBase is a URI, an embedded entity (with an optional *)
(* id) or a plain string; OneOrMany<T> is Either<T, Vec<T>>.               *)

AnyUrl(u) == [kind |-> "Url", url |-> u]
AnyObj(i) == [kind |-> "Base", id |-> i]
AnyStr == [kind |-> "String"]

AnyBases == {AnyUrl(u) : u \in Urls} \cup {AnyObj(i) : i \in OptUrls} \cup {AnyStr}

\* the entries used inside lists
ListEntries == {AnyUrl(UrlA1), AnyUrl(UrlB1), AnyObj(Some(UrlA2)), AnyObj(None)}

One(x) == [one |-> TRUE, item |-> x]
Many(s) == [one |-> FALSE, items |-> s]

Lists == UNION {[1..n -> ListEntries] : n \in 0..MaxMany}
OneOrManys == {One(x) : x \in AnyBases} \cup {Many(s) : s \in Lists}

\* OneOrMany::one / as_one: the left side of the Either
one(o) == IF o.one THEN Some(o.item) ELSE None

\* AnyBase::as_xsd_any_uri / take_xsd_any_uri
as_xsd_any_uri(b) == IF b.kind = "Url" THEN Some(b.url) ELSE None

\* AnyBase::id: the URI itself, or the embedded entity's id
any_base_id(b) ==
  IF b.kind = "Url" THEN Some(b.url)
  ELSE IF b.kind = "Base" THEN b.id
  ELSE None

\* OneOrMany<AnyBase>::single_xsd_any_uri (by value, line 62)
single_xsd_any_uri(o) ==
  IF one(o).some THEN as_xsd_any_uri(one(o).val) ELSE None

\* OneOrMany<AnyBase>::as_single_xsd_any_uri (by reference, lines 41 and 93)
as_single_xsd_any_uri(o) ==
  IF o.one /\ o.item.kind = "Url" THEN Some(o.item.url) ELSE None

\* OneOrMany<AnyBase>::as_single_id
as_single_id(o) ==
  IF one(o).some THEN any_base_id(one(o).val) ELSE None

\* Option<&Url>::and_then(|id| id.domain())
opt_domain(ou) == IF ou.some THEN domain(ou.val) ELSE None

\* BaseExt::id(domain): Err(DomainError) when the id is present and of another
\* domain, Ok(id_unchecked) otherwise (also when the id is absent)
checked_id(act, dom) ==
  IF act.id.some /\ domain(act.id.val) # Some(dom)
  THEN Err("DomainMismatch")
  ELSE Ok(act.id)

\* ActorAndObjectRefExt::actor(): Err(DomainError) unless the domain of the
\* actor's single id equals the domain of the activity's id
checked_actor(act) ==
  IF opt_domain(as_single_id(act.actor)) # opt_domain(act.id)
  THEN Err("DomainMismatch")
  ELSE Ok(act.actor)

-----------------------------------------------------------------------------
(* verify_activity_domains_valid *)

\* mutant: the object read as a bare URI only, without the embedded-entity arm
verify_object_id_uri_only(act) ==
  IF single_xsd_any_uri(act.object).some
  THEN Ok(single_xsd_any_uri(act.object).val)
  ELSE Err("MalformedReference")

\* lines 62-74: the resolution of the object field
verify_object_id(act) ==
  IF single_xsd_any_uri(act.object).some
  THEN Ok(single_xsd_any_uri(act.object).val)
  ELSE IF ~one(act.object).some
  THEN Err("MalformedReference")
  ELSE IF ~any_base_id(one(act.object).val).some
  THEN Err("MalformedReference")
  ELSE Ok(any_base_id(one(act.object).val).val)

\* mutant: the object's domain compared whatever the flag says
object_domain_mismatch_always(must_match, obj_url, expected_domain) ==
  domain(obj_url) # Some(expected_domain)

\* mutant: the comparison inverted
object_domain_mismatch_inverted(must_match, obj_url, expected_domain) ==
  must_match /\ domain(obj_url) = Some(expected_domain)

\* lines 76-78: the object's domain against the expected domain
object_domain_mismatch(must_match, obj_url, expected_domain) ==
  must_match /\ domain(obj_url) # Some(expected_domain)

\* mutant: the object resolved before the activity id is checked
verify_object_first(act, aid, must_match) ==
  IF ~domain(aid).some
  THEN [result |-> Err("MissingDomain"), object_id |-> None]
  ELSE LET expected_domain == domain(aid).val IN
    IF ~verify_object_id(act).ok
    THEN [result |-> verify_object_id(act), object_id |-> None]
    ELSE LET oid == verify_object_id(act).val IN
      IF ~checked_id(act, expected_domain).ok
      THEN [result |-> checked_id(act, expected_domain), object_id |-> Some(oid)]
      ELSE IF object_domain_mismatch(must_match, oid, expected_domain)
      THEN [result |-> Err("DomainMismatch"), object_id |-> Some(oid)]
      ELSE [result |-> Ok(Unit), object_id |-> Some(oid)]

\* lines 50-81; returns the Result and the local object_id (None when the
\* function returned before binding it)
verify_activity_domains_valid(act, aid, must_match) ==
  IF ~domain(aid).some
  THEN [result |-> Err("MissingDomain"), object_id |-> None]
  ELSE LET expected_domain == domain(aid).val IN
    IF ~checked_id(act, expected_domain).ok
    THEN [result |-> checked_id(act, expected_domain), object_id |-> None]
    ELSE IF ~verify_object_id(act).ok
    THEN [result |-> verify_object_id(act), object_id |-> None]
    ELSE LET oid == verify_object_id(act).val IN
      IF object_domain_mismatch(must_match, oid, expected_domain)
      THEN [result |-> Err("DomainMismatch"), object_id |-> Some(oid)]
      ELSE [result |-> Ok(Unit), object_id |-> Some(oid)]

-----------------------------------------------------------------------------
(* get_like_object_id *)

\* mutant: the compatibility arm for embedded objects removed
get_like_object_id_uri_only(act) ==
  IF as_single_xsd_any_uri(act.object).some
  THEN Ok(as_single_xsd_any_uri(act.object).val)
  ELSE Err("MalformedReference")

\* lines 83-106
get_like_object_id(act) ==
  LET object == act.object IN
  IF as_single_xsd_any_uri(object).some
  THEN Ok(as_single_xsd_any_uri(object).val)
  ELSE IF ~one(object).some
  THEN Err("MalformedReference")
  ELSE IF ~any_base_id(one(object).val).some
  THEN Err("MalformedReference")
  ELSE Ok(any_base_id(one(object).val).val)

-----------------------------------------------------------------------------
(* The two pure functions, applied to every activity within the bounds.    *)

\* the context is not touched by the pure functions
NoContext == [request_counter |-> 0, known |-> {}, fetches |-> 0]

InitPure ==
  /\ pc = "call"
  /\ op = "none"
  /\ actor_id \in Urls
  /\ activity \in [id : OptUrls, actor : {One(AnyUrl(actor_id))}, object : OneOrManys]
  /\ object_domain_must_match \in BOOLEAN
  /\ result = Err("pending")
  /\ object_id = None
  /\ request_counter = 0
  /\ known = {}
  /\ fetches = 0
  /\ delegated = FALSE
  /\ before = NoContext
  /\ initial_budget = 0

VerifyActivityDomainsValid ==
  /\ pc = "call"
  /\ LET r == verify_activity_domains_valid(activity, actor_id, object_domain_must_match) IN
       /\ result' = r.result
       /\ object_id' = r.object_id
  /\ op' = "verify_activity_domains_valid"
  /\ pc' = "done"
  /\ UNCHANGED <<activity, actor_id, object_domain_must_match, request_counter,
                 known, fetches, delegated, before, initial_budget>>

GetLikeObjectId ==
  /\ pc = "call"
  /\ result' = get_like_object_id(activity)
  /\ op' = "get_like_object_id"
  /\ pc' = "done"
  /\ UNCHANGED <<activity, actor_id, object_domain_must_match, object_id,
                 request_counter, known, fetches, delegated, before,
                 initial_budget>>

NextPure == VerifyActivityDomainsValid \/ GetLikeObjectId

SpecPure == InitPure /\ [][NextPure]_vars

-----------------------------------------------------------------------------
(* receive_unhandled_activity *)

\* mutant: the activity logged and accepted
receive_unhandled_activity_ok(act) == Ok(Unit)

\* lines 23-29: logs the activity and returns the error
receive_unhandled_activity(act) == Err("UnsupportedActivity")

-----------------------------------------------------------------------------
(* get_actor_as_user *)

\* the local user record of an actor URI
User(uri) == [actor_id |-> uri]

\* crate::fetcher::get_or_fetch_and_upsert_user, by its contract: a URI known
\* locally is answered without a fetch; an unknown URI with no budget left
\* fails without a fetch; otherwise one fetch is performed and the counter
\* decremented once, whether the fetch succeeds (net_ok) or not
get_or_fetch_and_upsert_user(uri, kn, counter, net_ok) ==
  IF uri \in kn
  THEN [result |-> Ok(User(uri)), request_counter |-> counter, known |-> kn,
        fetched |-> FALSE, delegated |-> TRUE]
  ELSE IF counter <= 0
  THEN [result |-> Err("BudgetExhausted"), request_counter |-> counter,
        known |-> kn, fetched |-> FALSE, delegated |-> TRUE]
  ELSE IF net_ok
  THEN [result |-> Ok(User(uri)), request_counter |-> counter - 1,
        known |-> kn \cup {uri}, fetched |-> TRUE, delegated |-> TRUE]
  ELSE [result |-> Err("FetchFailed"), request_counter |-> counter - 1,
        known |-> kn, fetched |-> TRUE, delegated |-> TRUE]

\* a return before the delegation: nothing fetched, the counter as it was
Rejected(e, kn, counter) ==
  [result |-> Err(e), request_counter |-> counter, known |-> kn,
   fetched |-> FALSE, delegated |-> FALSE]

\* mutant: the counter handed to the fetcher as a copy, so that the fetcher's
\* decrement is lost
get_actor_as_user_counter_copy(act, kn, counter, net_ok) ==
  IF ~checked_actor(act).ok
  THEN Rejected(checked_actor(act).err, kn, counter)
  ELSE LET actor == checked_actor(act).val IN
    IF ~as_single_xsd_any_uri(actor).some
    THEN Rejected("MissingActor", kn, counter)
    ELSE [get_or_fetch_and_upsert_user(as_single_xsd_any_uri(actor).val, kn, counter, net_ok)
            EXCEPT !.request_counter = counter]

\* mutant: the actor read with as_single_id, which also answers for an embedded
\* entity
get_actor_as_user_single_id(act, kn, counter, net_ok) ==
  IF ~checked_actor(act).ok
  THEN Rejected(checked_actor(act).err, kn, counter)
  ELSE LET actor == checked_actor(act).val IN
    IF ~as_single_id(actor).some
    THEN Rejected("MissingActor", kn, counter)
    ELSE get_or_fetch_and_upsert_user(as_single_id(actor).val, kn, counter, net_ok)

\* lines 32-43
get_actor_as_user(act, kn, counter, net_ok) ==
  IF ~checked_actor(act).ok
  THEN Rejected(checked_actor(act).err, kn, counter)
  ELSE LET actor == checked_actor(act).val IN
    IF ~as_single_xsd_any_uri(actor).some
    THEN Rejected("MissingActor", kn, counter)
    ELSE get_or_fetch_and_upsert_user(as_single_xsd_any_uri(actor).val, kn, counter, net_ok)

-----------------------------------------------------------------------------
(* One inbound request: any sequence of get_actor_as_user and              *)
(* receive_unhandled_activity calls sharing the request counter.           *)

\* users with a local record when the request arrives
LocalUsers == {UrlA1}

\* the actor fields of the activities of a request: a single URI, a single
\* embedded entity, a plain string, or a list
ActorEntries == {AnyUrl(UrlA1), AnyObj(Some(UrlA1))}
ActorLists == UNION {[1..n -> ActorEntries] : n \in 0..MaxMany}
ActorFields ==
  {One(AnyUrl(u)) : u \in {UrlA1, UrlA2, UrlB1, UrlNoHost}}
    \cup {One(AnyObj(Some(UrlA1))), One(AnyObj(None)), One(AnyStr)}
    \cup {Many(s) : s \in ActorLists}

\* the object field plays no part in these two functions
Activities ==
  [id : {None, Some(UrlA2), Some(UrlB1)}, actor : ActorFields,
   object : {One(AnyUrl(UrlA1))}]

Context == [request_counter |-> request_counter, known |-> known, fetches |-> fetches]

Init ==
  /\ pc = "serving"
  /\ op = "none"
  /\ activity \in [id : {Some(UrlA1)}, actor : {One(AnyUrl(UrlA1))}, object : {One(AnyUrl(UrlA1))}]
  /\ actor_id = UrlA1
  /\ object_domain_must_match = FALSE
  /\ result = Err("pending")
  /\ object_id = None
  /\ request_counter \in 0..MaxBudget
  /\ initial_budget = request_counter
  /\ known \in SUBSET LocalUsers
  /\ fetches = 0
  /\ delegated = FALSE
  /\ before = Context

GetActorAsUser ==
  /\ pc = "serving"
  /\ \E act \in Activities, net_ok \in BOOLEAN :
       LET r == get_actor_as_user(act, known, request_counter, net_ok) IN
         /\ activity' = act
         /\ result' = r.result
         /\ request_counter' = r.request_counter
         /\ known' = r.known
         /\ fetches' = IF r.fetched THEN fetches + 1 ELSE fetches
         /\ delegated' = r.delegated
  /\ op' = "get_actor_as_user"
  /\ before' = Context
  /\ UNCHANGED <<pc, actor_id, object_domain_must_match, object_id, initial_budget>>

ReceiveUnhandledActivity ==
  /\ pc = "serving"
  /\ \E act \in Activities :
       /\ activity' = act
       /\ result' = receive_unhandled_activity(act)
  /\ op' = "receive_unhandled_activity"
  /\ delegated' = FALSE
  /\ before' = Context
  /\ UNCHANGED <<pc, actor_id, object_domain_must_match, object_id,
                 request_counter, known, fetches, initial_budget>>

Next == GetActorAsUser \/ ReceiveUnhandledActivity

Spec == Init /\ [][Next]_vars

-----------------------------------------------------------------------------
(* Properties *)

Verified == op = "verify_activity_domains_valid"
Extracted == op = "get_like_object_id"
Resolved == op = "get_actor_as_user"
Unhandled == op = "receive_unhandled_activity"

\* the activity id is present and of the actor id's domain
IdMatchesActor ==
  /\ domain(actor_id).some
  /\ activity.id.some
  /\ domain(activity.id.val) = domain(actor_id)

\* the field is one bare URI, or one embedded entity that carries an id
SingleReference(o) ==
  /\ o.one
  /\ \/ o.item.kind = "Url"
     \/ o.item.kind = "Base" /\ o.item.id.some

\* the URI a SingleReference field refers to
ReferenceOf(o) == IF o.item.kind = "Url" THEN o.item.url ELSE o.item.id.val

\* the entries of a field, a single value counting as one entry
Entries(o) == IF o.one THEN <<o.item>> ELSE o.items

\* the extraction decided by the number of entries: one entry that is a bare
\* URI or an embedded entity with an id is returned, anything else fails
ExtractByEntries(o) ==
  IF Len(Entries(o)) = 1 /\ Entries(o)[1].kind = "Url"
  THEN Ok(Entries(o)[1].url)
  ELSE IF Len(Entries(o)) = 1 /\ Entries(o)[1].kind = "Base" /\ Entries(o)[1].id.some
  THEN Ok(Entries(o)[1].id.val)
  ELSE Err("MalformedReference")

\* C1: an activity id of another domain than the actor id's makes
\* verify_activity_domains_valid fail with DomainMismatch, for both values of
\* the flag and every object field; the object is not resolved.
C1_IdMismatchFails ==
  (Verified /\ domain(actor_id).some /\ activity.id.some
     /\ domain(activity.id.val) # domain(actor_id))
    => (result = Err("DomainMismatch") /\ object_id = None)

C1_Witness ==
  /\ Verified
  /\ actor_id = UrlA1
  /\ activity.id = Some(UrlB1)
  /\ activity.object = Many(<<>>)
  /\ ~object_domain_must_match
  /\ result = Err("DomainMismatch")

\* C2 as stated: with the activity id of the actor's domain and the flag
\* unset, verify_activity_domains_valid succeeds whatever the object is.
C2_Original ==
  (Verified /\ IdMatchesActor /\ ~object_domain_must_match) => result.ok

\* C2 amended: with the activity id of the actor's domain and the flag unset,
\* verify_activity_domains_valid succeeds exactly when the object field is one
\* bare URI or one embedded entity with an id, whatever that URI's domain, and
\* fails with MalformedReference for every other object field.
C2_SucceedsIfObjectResolves ==
  (Verified /\ IdMatchesActor /\ ~object_domain_must_match)
    => /\ SingleReference(activity.object) => result = Ok(Unit)
       /\ ~SingleReference(activity.object) => result = Err("MalformedReference")

C2_Witness ==
  /\ Verified
  /\ IdMatchesActor
  /\ ~object_domain_must_match
  /\ actor_id = UrlA1
  /\ activity.object = One(AnyUrl(UrlB1))
  /\ result.ok

\* C3: with the flag set, verify_activity_domains_valid succeeds only if the
\* object's URI is of the actor id's domain; with a matching activity id and
\* an object of another domain or of no domain it fails with DomainMismatch.
C3_ObjectDomainMustMatch ==
  (Verified /\ object_domain_must_match)
    => /\ result.ok
            => /\ SingleReference(activity.object)
               /\ domain(ReferenceOf(activity.object)) = domain(actor_id)
       /\ (/\ IdMatchesActor
           /\ SingleReference(activity.object)
           /\ domain(ReferenceOf(activity.object)) # domain(actor_id))
            => result = Err("DomainMismatch")

C3_Witness ==
  /\ Verified
  /\ object_domain_must_match
  /\ IdMatchesActor
  /\ activity.object = One(AnyObj(Some(UrlIp)))
  /\ result = Err("DomainMismatch")

\* C4: every activity verify_activity_domains_valid accepts has an id, and
\* that id is of the actor id's domain.
C4_AcceptedHasMatchingId ==
  (Verified /\ result.ok)
    => (activity.id.some /\ domain(activity.id.val) = domain(actor_id))

\* C5 as stated: get_like_object_id returns the single entry of the object
\* field when it is a bare URI or an embedded entity with an id, and fails
\* with MalformedReference for no entry, several entries or an entity without
\* id.
C5_Original ==
  Extracted => result = ExtractByEntries(activity.object)

\* C5 amended: get_like_object_id returns the URI of an object field that is
\* one bare URI, the id of one that is one embedded entity with an id, and
\* fails with MalformedReference for every other field: an entity without id,
\* a plain string, and a list of any length, a list of one entry included.
C5_ExtractsSingleReference ==
  Extracted
    => /\ SingleReference(activity.object)
            => result = Ok(ReferenceOf(activity.object))
       /\ ~SingleReference(activity.object)
            => result = Err("MalformedReference")

C5_Witness ==
  /\ Extracted
  /\ activity.object = Many(<<AnyObj(Some(UrlA2))>>)
  /\ result = Err("MalformedReference")

\* C9 as stated: verify_activity_domains_valid fails with MissingDomain
\* exactly when the actor id has no authority component.
C9_Original ==
  Verified => (result = Err("MissingDomain") <=> actor_id.host.kind = "None")

\* C9 amended: verify_activity_domains_valid fails with MissingDomain exactly
\* when the actor id's host is not a domain name (no authority component, or
\* an IP address); this is decided first, whatever the activity id and the
\* object are.
C9_MissingDomainFirst ==
  Verified
    => /\ actor_id.host.kind \in {"None", "Ipv4"}
            => (result = Err("MissingDomain") /\ object_id = None)
       /\ actor_id.host.kind = "Domain" => result # Err("MissingDomain")

C9_Witness ==
  /\ Verified
  /\ actor_id = UrlIp
  /\ activity.id = Some(UrlB1)
  /\ activity.object = Many(<<>>)
  /\ result = Err("MissingDomain")

\* C10: given a matching activity id, verify_activity_domains_valid resolves
\* the object to the URI get_like_object_id returns, and fails with
\* MalformedReference exactly when get_like_object_id fails, for both values
\* of the flag.
C10_SameResolution ==
  (Verified /\ IdMatchesActor)
    => /\ get_like_object_id(activity).ok
            => object_id = Some(get_like_object_id(activity).val)
       /\ ~get_like_object_id(activity).ok
            => (result = Err("MalformedReference") /\ object_id = None)
       /\ result = Err("MalformedReference") => ~get_like_object_id(activity).ok

C10_Witness ==
  /\ Verified
  /\ IdMatchesActor
  /\ ~object_domain_must_match
  /\ activity.object = One(AnyObj(Some(UrlB1)))
  /\ object_id = Some(UrlB1)
  /\ result.ok

\* the actor field is one bare URI
SingleActorUri == activity.actor.one /\ activity.actor.item.kind = "Url"

\* C6: the fetches performed never exceed the budget the request started
\* with, the counter is never negative, and a call made with the budget used
\* up for an actor not known locally fails without a fetch.
C6_FetchBudgetBound ==
  /\ request_counter >= 0
  /\ fetches <= initial_budget
  /\ (/\ Resolved
      /\ before.request_counter = 0
      /\ ~(SingleActorUri /\ activity.actor.item.url \in before.known))
       => (~result.ok /\ fetches = before.fetches)

C6_Witness ==
  /\ Resolved
  /\ initial_budget > 0
  /\ before.request_counter = 0
  /\ SingleActorUri
  /\ activity.actor.item.url \notin before.known
  /\ delegated
  /\ result = Err("BudgetExhausted")
  /\ fetches = initial_budget

\* C7: receive_unhandled_activity returns an error for every activity and
\* leaves the request counter as it was.
C7_UnhandledFailsBudgetKept ==
  Unhandled
    => /\ ~result.ok
       /\ request_counter = before.request_counter
       /\ fetches = before.fetches

C7_Witness ==
  /\ Unhandled
  /\ result = Err("UnsupportedActivity")
  /\ fetches > 0
  /\ request_counter > 0
  /\ request_counter = before.request_counter

\* C8 as stated: an actor field that is not a single URI makes
\* get_actor_as_user fail with MissingActor, without invoking the fetcher and
\* with the counter unchanged.
C8_Original ==
  (Resolved /\ ~SingleActorUri)
    => /\ result = Err("MissingActor")
       /\ ~delegated
       /\ request_counter = before.request_counter

\* C8 amended: an actor field that is not a single URI makes
\* get_actor_as_user fail without invoking the fetcher and with the counter
\* unchanged; the error is DomainMismatch when the domain of the actor's
\* single id differs from the domain of the activity id, and MissingActor
\* otherwise.
C8_NoSingleUriFails ==
  (Resolved /\ ~SingleActorUri)
    => /\ result = IF opt_domain(as_single_id(activity.actor)) # opt_domain(activity.id)
                   THEN Err("DomainMismatch")
                   ELSE Err("MissingActor")
       /\ ~delegated
       /\ request_counter = before.request_counter
       /\ fetches = before.fetches
       /\ known = before.known

C8_Witness ==
  /\ Resolved
  /\ activity.actor = One(AnyObj(Some(UrlA1)))
  /\ activity.id = Some(UrlA2)
  /\ request_counter > 0
  /\ result = Err("MissingActor")
  /\ ~delegated

====
